---- MODULE Spec2Model ----
(***************************************************************************)
(* A model of yap, a local password store: the AES-256-GCM engine and key  *)
(* derivation of crypto.rs, the per-secret file vault of vault.rs and the  *)
(* YAML settings file of config.rs.                                        *)
(*                                                                         *)
(* Bytes are naturals 0..255 and byte buffers are sequences of them.  The  *)
(* library primitives (PBKDF2, the GCM keystream and tag) are modelled by  *)
(* small deterministic byte functions: the properties stated here are    *)
(* about layout, lengths, error paths and the file system, not about the   *)
(* strength of the primitives.                                             *)
(***************************************************************************)
EXTENDS Naturals, Sequences, FiniteSets

VARIABLES
    engine,       \* Aes256Engine.key: the key bytes the engine borrows
    rngLog,       \* every draw made from SystemRandom, in order
    sealed,       \* history: every successful Seal on an engine, in order
    envPass,      \* the PASS environment variable (bytes) or Unset
    dirExists,    \* whether the vault directory exists
    files,        \* vault directory: name -> file content or NoFile
    vault,        \* the SimpleVault handle: NoVault or its engine's key
    lastSet,      \* history: name -> bytes of the last set_key that returned Ok
    cfgDirExists, \* whether the configuration directory exists
    cfgFile,      \* content of the config file, or NoFile
    config,       \* the Configuration in memory: NoConfig or its settings
    expected,     \* history: the settings read, then changed by each set_key
    lastSaved,    \* history: the settings last written by init or save
    last          \* the last call made and what it returned

vars == <<engine, rngLog, sealed, envPass, dirExists, files, vault,
          lastSet, cfgDirExists, cfgFile, config, expected, lastSaved, last>>

cryptoVars == <<engine, rngLog, sealed>>
vaultVars == <<envPass, dirExists, files, vault, lastSet>>
configVars == <<cfgDirExists, cfgFile, config, expected, lastSaved>>

----------------------------------------------------------------------------
(* Bounds of the model *)

\* longest plaintext / password, in bytes
MaxLen == 1
\* draws from the random source in one behaviour
MaxDraws == 2

(* Program constants *)

NONCE_LEN == 12
TAG_LEN == 16
AES_256_KEY_LEN == 32
DERIVED_KEY_LEN == 2
ITERATIONS == 100000

SALT == <<0, 1, 2, 3, 4, 5, 6, 7, 8, 9>>

----------------------------------------------------------------------------
(* Byte buffers *)

RECURSIVE SumSeq(_)
SumSeq(s) == IF s = <<>> THEN 0 ELSE Head(s) + SumSeq(Tail(s))

Fill(n, b) == [i \in 1..n |-> b]

RECURSIVE SeqsUpTo(_, _)
SeqsUpTo(S, n) ==
    IF n = 0 THEN {<<>>}
    ELSE LET shorter == SeqsUpTo(S, n - 1)
         IN  shorter \cup {Append(s, b) : s \in {t \in shorter : Len(t) = n - 1}, b \in S}

PtBytes == {65}
Plaintexts == SeqsUpTo(PtBytes, MaxLen)

\* two of the 2^96 buffers the random source can fill
NonceBuf(n) == [i \in 1..NONCE_LEN |-> IF i = NONCE_LEN THEN n ELSE 0]
Nonces == {NonceBuf(0), NonceBuf(1)}

----------------------------------------------------------------------------
(* Results: Ok(bytes), Err(kind) and a panic, as records of one shape *)

Ok(b) == [kind |-> "ok", err |-> "", bytes |-> b, name |-> ""]
Err(e) == [kind |-> "err", err |-> e, bytes |-> <<>>, name |-> ""]
ErrNamed(e, n) == [kind |-> "err", err |-> e, bytes |-> <<>>, name |-> n]
Panic == [kind |-> "panic", err |-> "", bytes |-> <<>>, name |-> ""]
NoResult == [kind |-> "none", err |-> "", bytes |-> <<>>, name |-> ""]

IsOk(r) == r.kind = "ok"

Call(op, key, input, name, rng, res) ==
    [op |-> op, key |-> key, input |-> input, name |-> name, rng |-> rng, res |-> res]

----------------------------------------------------------------------------
(* crypto.rs *)

\* ring::pbkdf2::derive fills the whole of `out`, whatever its length
PBKDF2(iterations, salt, secret, outLen) ==
    [i \in 1..outLen |-> (31 * SumSeq(secret) + SumSeq(salt) + iterations + i) % 256]

\* `let mut key = [0u8, 32]` is the two-element array {0, 32}; derive fills it.
derive_key_buf(pass) == PBKDF2(ITERATIONS, SALT, pass, DERIVED_KEY_LEN)

\* `Ok(&key)` hands out a reference to the dead stack array: the length (2) is
\* part of the reference, the bytes read through it are those derive wrote or
\* whatever has replaced them (here: the array's initial bytes).
derive_key_reads(pass) == {derive_key_buf(pass), <<0, 32>>}

\* UnboundKey::new(&AES_256_GCM, key): Unspecified unless key is 32 bytes
UnboundKey_new(key) == Len(key) = AES_256_KEY_LEN

\* RandomNonceSequence::advance: one fill of a 12-byte buffer; `?` on failure
RngFail == [ok |-> FALSE, buf |-> <<>>]
RngOk(buf) == [ok |-> TRUE, buf |-> buf]
RngOutcomes == {RngFail} \cup {RngOk(n) : n \in Nonces}

advance_fixed(rnd) == Ok(Fill(NONCE_LEN, 0))

advance_swallow(rnd) == IF rnd.ok THEN Ok(rnd.buf) ELSE Ok(Fill(NONCE_LEN, 0))

advance(rnd) == IF rnd.ok THEN Ok(rnd.buf) ELSE Err("CryptoError")

\* AES-256-GCM on a buffer: ciphertext of the plaintext's length, then the tag
KeyStream(key, nonce, i) == (key[1] + 3 * nonce[NONCE_LEN] + i) % 256
GcmCipher(key, nonce, pt) == [i \in 1..Len(pt) |-> (pt[i] + KeyStream(key, nonce, i)) % 256]
GcmTag(key, nonce, ct) ==
    [j \in 1..TAG_LEN |-> (key[1] + 5 * nonce[NONCE_LEN] + 7 * SumSeq(ct) + j) % 256]

\* seal_in_place_append_tag(Aad::empty(), payload): payload becomes ct || tag
seal_in_place_append_tag(key, nonce, payload) ==
    LET ct == GcmCipher(key, nonce, payload)
    IN  ct \o GcmTag(key, nonce, ct)

\* Aes256Engine::encrypt_bytes, given what the random source would return.
\* drew: whether advance() was reached; res: the Result handed to the caller.
encrypt_bytes(key, payload, rnd) ==
    IF ~UnboundKey_new(key)
    THEN [drew |-> FALSE, nonce |-> <<>>, res |-> Err("CryptoError")]
    ELSE LET n == advance(rnd)
         IN  IF IsOk(n)
             THEN [drew |-> TRUE, nonce |-> n.bytes,
                   res |-> Ok(seal_in_place_append_tag(key, n.bytes, payload))]
             ELSE [drew |-> TRUE, nonce |-> <<>>, res |-> Err("CryptoError")]

\* Aes256Engine::decrypt_bytes is `todo!()`: it panics on every input
decrypt_bytes(key, bytes) == Panic

----------------------------------------------------------------------------
(* Inputs *)

\* "asdf", the passphrase of vault.rs's test, and a passphrase of 32 bytes
PassAsdf == <<97, 115, 100, 102>>
Pass32 == Fill(AES_256_KEY_LEN, 112)
Passphrases == {PassAsdf, Pass32}

\* keys an engine is built from directly: two of the right length, one too short
Key1 == Fill(AES_256_KEY_LEN, 1)
Key2 == Fill(AES_256_KEY_LEN, 2)
KeyShort == Fill(16, 1)
DirectKeys == {Key1, Key2, KeyShort}

Tamper(b, i) == [b EXCEPT ![i] = (@ + 1) % 256]

\* positions of a buffer to flip: the first byte, the byte before the tag, the last
TamperAt(b) == {i \in {1, Len(b) - TAG_LEN, Len(b)} : i \in 1..Len(b)}

ShortBuffers == {Fill(n, 0) : n \in {0, 1, NONCE_LEN + TAG_LEN - 1}}

\* what callers hand to decrypt_bytes: sealed outputs, those with one byte
\* changed, and buffers too short to hold a nonce and a tag
OpenInputs ==
    LET outs == {sealed[i].out : i \in DOMAIN sealed}
    IN  outs \cup UNION {{Tamper(b, i) : i \in TamperAt(b)} : b \in outs} \cup ShortBuffers

----------------------------------------------------------------------------
(* Engine operations *)

RngTag(r, rnd) == IF ~r.drew THEN "none" ELSE IF rnd.ok THEN "ok" ELSE "fail"

\* the draws one encrypt_bytes call adds to the random source's history
Drawn(r, rnd) == IF r.drew THEN Append(rngLog, rnd) ELSE rngLog

derive_key_from_pass(pass) ==
    /\ \E key \in derive_key_reads(pass) :
           last' = Call("derive", key, pass, "", "none", Ok(key))
    /\ UNCHANGED <<cryptoVars, vaultVars, configVars>>

Aes256Engine_new(key) ==
    /\ engine' = key
    /\ last' = Call("new", key, <<>>, "", "none", NoResult)
    /\ UNCHANGED <<rngLog, sealed, vaultVars, configVars>>

Seal(payload, rnd) ==
    /\ Len(rngLog) < MaxDraws
    /\ LET r == encrypt_bytes(engine, payload, rnd)
       IN  /\ rngLog' = Drawn(r, rnd)
           /\ sealed' = IF IsOk(r.res)
                        THEN Append(sealed, [key |-> engine, pt |-> payload,
                                             nonce |-> r.nonce, draw |-> Len(rngLog) + 1,
                                             out |-> r.res.bytes])
                        ELSE sealed
           /\ last' = Call("seal", engine, payload, "", RngTag(r, rnd), r.res)
    /\ UNCHANGED <<engine, vaultVars, configVars>>

Open(bytes) ==
    /\ last' = Call("open", engine, bytes, "", "none", decrypt_bytes(engine, bytes))
    /\ UNCHANGED <<cryptoVars, vaultVars, configVars>>

----------------------------------------------------------------------------
(* vault.rs *)

Names == {"a", "b"}

File(b) == [exists |-> TRUE, data |-> b]
NoFile == [exists |-> FALSE, data |-> <<>>]

Handle(key) == [loaded |-> TRUE, key |-> key]
NoVault == [loaded |-> FALSE, key |-> <<>>]

Set(v) == [set |-> TRUE, value |-> v]
Unset == [set |-> FALSE, value |-> <<>>]

\* String::from_utf8: the well-formed byte sequences of UTF-8
InRange(b, lo, hi) == lo <= b /\ b <= hi
RECURSIVE ValidUtf8(_)
ValidUtf8(s) ==
    IF s = <<>> THEN TRUE
    ELSE LET b == s[1]
             cont(i) == i <= Len(s) /\ InRange(s[i], 128, 191)
             rest(n) == ValidUtf8(SubSeq(s, n + 1, Len(s)))
         IN  IF b < 128 THEN rest(1)
             ELSE IF InRange(b, 194, 223) THEN cont(2) /\ rest(2)
             ELSE IF b = 224 THEN Len(s) >= 2 /\ InRange(s[2], 160, 191) /\ cont(3) /\ rest(3)
             ELSE IF b = 237 THEN Len(s) >= 2 /\ InRange(s[2], 128, 159) /\ cont(3) /\ rest(3)
             ELSE IF InRange(b, 225, 239) THEN cont(2) /\ cont(3) /\ rest(3)
             ELSE IF b = 240
                  THEN Len(s) >= 2 /\ InRange(s[2], 144, 191) /\ cont(3) /\ cont(4) /\ rest(4)
             ELSE IF InRange(b, 241, 243) THEN cont(2) /\ cont(3) /\ cont(4) /\ rest(4)
             ELSE IF b = 244
                  THEN Len(s) >= 2 /\ InRange(s[2], 128, 143) /\ cont(3) /\ cont(4) /\ rest(4)
             ELSE FALSE

from_utf8(b) == IF ValidUtf8(b) THEN Ok(b) ELSE Err("UTF8Error")

\* `Aes256GcmEngine::new(pass)`: crate::crypto defines no Aes256GcmEngine.  The
\* engine of crypto.rs is built from the passphrase in one of the two ways its
\* code offers: new(derive_key_from_pass(pass)), or new(pass.as_bytes()).
Aes256GcmEngine_new(pass) == derive_key_reads(pass) \cup {pass}

\* SimpleVault::get_key on the directory as it is
get_key_result(key, file, name) ==
    IF ~file.exists
    THEN ErrNamed("PasswordNotFound", name)
    ELSE LET plaintext == decrypt_bytes(key, file.data)
         IN  IF IsOk(plaintext) THEN from_utf8(plaintext.bytes) ELSE plaintext

\* std::fs::write(p, ciphertext) after `encrypt_bytes(..)?`
set_key_result(enc, dir) ==
    IF ~IsOk(enc) THEN enc ELSE IF dir THEN Ok(<<>>) ELSE Err("StdIO")

create ==
    /\ dirExists' = TRUE
    /\ IF ~envPass.set
       THEN /\ vault' = NoVault
            /\ last' = Call("create", <<>>, <<>>, "", "none", Panic)
       ELSE \E key \in Aes256GcmEngine_new(envPass.value) :
                /\ vault' = Handle(key)
                /\ last' = Call("create", key, <<>>, "", "none", Ok(<<>>))
    /\ UNCHANGED <<cryptoVars, envPass, files, lastSet, configVars>>

load ==
    /\ IF ~envPass.set
       THEN /\ vault' = NoVault
            /\ last' = Call("load", <<>>, <<>>, "", "none", Panic)
       ELSE \E key \in Aes256GcmEngine_new(envPass.value) :
                /\ vault' = Handle(key)
                /\ last' = Call("load", key, <<>>, "", "none", Ok(<<>>))
    /\ UNCHANGED <<cryptoVars, envPass, dirExists, files, lastSet, configVars>>

get_key(name) ==
    /\ vault.loaded
    /\ last' = Call("get_key", vault.key, files[name].data, name, "none",
                    get_key_result(vault.key, files[name], name))
    /\ UNCHANGED <<cryptoVars, vaultVars, configVars>>

set_key(name, value, rnd) ==
    /\ vault.loaded
    /\ Len(rngLog) < MaxDraws
    /\ LET r == encrypt_bytes(vault.key, value, rnd)
           res == set_key_result(r.res, dirExists)
       IN  /\ rngLog' = Drawn(r, rnd)
           /\ files' = IF IsOk(res) THEN [files EXCEPT ![name] = File(r.res.bytes)] ELSE files
           /\ lastSet' = IF IsOk(res) THEN [lastSet EXCEPT ![name] = Set(value)] ELSE lastSet
           /\ last' = Call("set_key", vault.key, value, name, RngTag(r, rnd), res)
    /\ UNCHANGED <<engine, sealed, envPass, dirExists, vault, configVars>>

----------------------------------------------------------------------------
(* config.rs *)

SettingKeys == {"RemoteURL", "Session"}
Values == {"", "a", "true"}

Settings(r, s) == [remote_url |-> r, session |-> s]
\* #[derive(Default)]: both strings empty
DefaultSettings == Settings("", "")

Loaded(settings) == [loaded |-> TRUE, settings |-> settings]
NoConfig == [loaded |-> FALSE, settings |-> DefaultSettings]

OkStr(v) == [kind |-> "ok", err |-> "", bytes |-> <<>>, name |-> v]

\* serde_yaml writes a string as a plain scalar unless a plain scalar of that
\* text would read back as something else (empty, null, a boolean)
NotPlainStrings == {"", "~", "null", "true", "false"}
Scalar(text) == [quoted |-> text \in NotPlainStrings, text |-> text]

\* serde_yaml::to_writer(f, &settings): one mapping entry per field, in order
to_writer(settings) ==
    << <<"remote_url", Scalar(settings.remote_url)>>,
       <<"session", Scalar(settings.session)>> >>

\* a scalar read into a String field
ReadsAsString(sc) == sc.quoted \/ sc.text \notin NotPlainStrings

\* serde_yaml::from_reader into ConfigSettings: both fields, each a string
from_reader(doc) ==
    IF /\ Len(doc) = 2
       /\ doc[1][1] = "remote_url" /\ ReadsAsString(doc[1][2])
       /\ doc[2][1] = "session" /\ ReadsAsString(doc[2][2])
    THEN [ok |-> TRUE, settings |-> Settings(doc[1][2].text, doc[2][2].text)]
    ELSE [ok |-> FALSE, settings |-> DefaultSettings]

\* Configuration::get_key
get_key_value(settings, key) ==
    IF key = "RemoteURL" THEN settings.remote_url ELSE settings.session

set_key_value_swapped(settings, key, value) ==
    IF key = "RemoteURL"
    THEN [settings EXCEPT !.remote_url = value]
    ELSE [settings EXCEPT !.remote_url = value]

\* Configuration::set_key
set_key_value(settings, key, value) ==
    IF key = "RemoteURL"
    THEN [settings EXCEPT !.remote_url = value]
    ELSE [settings EXCEPT !.session = value]

\* history values: the settings a caller expects, by key
Known(f) == [valid |-> TRUE, settings |-> f]
Unknown == [valid |-> FALSE, settings |-> [k \in SettingKeys |-> ""]]
ByKey(settings) == [k \in SettingKeys |-> get_key_value(settings, k)]

Configuration_init ==
    /\ cfgDirExists' = TRUE
    /\ cfgFile' = File(to_writer(DefaultSettings))
    /\ lastSaved' = Known([k \in SettingKeys |-> ""])
    /\ last' = Call("cfg_init", <<>>, <<>>, "", "none", Ok(<<>>))
    /\ UNCHANGED <<cryptoVars, vaultVars, config, expected>>

Configuration_read ==
    /\ IF ~cfgFile.exists
       THEN /\ last' = Call("cfg_read", <<>>, <<>>, "", "none", Err("StdIO"))
            /\ UNCHANGED <<config, expected>>
       ELSE LET r == from_reader(cfgFile.data)
            IN  IF r.ok
                THEN /\ config' = Loaded(r.settings)
                     /\ expected' = lastSaved.settings
                     /\ last' = Call("cfg_read", <<>>, <<>>, "", "none", Ok(<<>>))
                ELSE /\ last' = Call("cfg_read", <<>>, <<>>, "", "none", Err("SerdeYaml"))
                     /\ UNCHANGED <<config, expected>>
    /\ UNCHANGED <<cryptoVars, vaultVars, cfgDirExists, cfgFile, lastSaved>>

Configuration_get_key(key) ==
    /\ config.loaded
    /\ last' = Call("cfg_get", <<>>, <<>>, key, "none",
                    OkStr(get_key_value(config.settings, key)))
    /\ UNCHANGED <<cryptoVars, vaultVars, configVars>>

Configuration_set_key(key, value) ==
    /\ config.loaded
    /\ config' = Loaded(set_key_value(config.settings, key, value))
    /\ expected' = [expected EXCEPT ![key] = value]
    /\ last' = Call("cfg_set", <<>>, <<>>, key, "none", OkStr(value))
    /\ UNCHANGED <<cryptoVars, vaultVars, cfgDirExists, cfgFile, lastSaved>>

Configuration_save ==
    /\ config.loaded
    /\ IF cfgDirExists
       THEN /\ cfgFile' = File(to_writer(config.settings))
            /\ lastSaved' = Known(expected)
            /\ last' = Call("cfg_save", <<>>, <<>>, "", "none", Ok(<<>>))
       ELSE /\ last' = Call("cfg_save", <<>>, <<>>, "", "none", Err("StdIO"))
            /\ UNCHANGED <<cfgFile, lastSaved>>
    /\ UNCHANGED <<cryptoVars, vaultVars, cfgDirExists, config, expected>>

\* std::fs::remove_dir_all on the configuration directory
remove_dir_all ==
    /\ cfgDirExists
    /\ cfgDirExists' = FALSE
    /\ cfgFile' = NoFile
    /\ lastSaved' = Unknown
    /\ last' = Call("remove_dir_all", <<>>, <<>>, "", "none", Ok(<<>>))
    /\ UNCHANGED <<cryptoVars, vaultVars, config, expected>>

----------------------------------------------------------------------------
(* Specifications *)

Start == Call("start", <<>>, <<>>, "", "none", NoResult)

\* a secret already in the store: one byte sealed under Key1
InitialSecret == seal_in_place_append_tag(Key1, NonceBuf(0), <<65>>)

InitEngine ==
    /\ engine = Key1
    /\ rngLog = <<>>
    /\ sealed = <<>>

InitVault ==
    /\ envPass \in {Unset, Set(PassAsdf), Set(Pass32)}
    /\ dirExists \in BOOLEAN
    /\ files \in [Names -> {NoFile, File(InitialSecret)}]
    /\ \A n \in Names : files[n].exists => dirExists
    /\ vault = NoVault
    /\ lastSet = [n \in Names |-> Unset]

NoVaultYet ==
    /\ envPass = Unset
    /\ dirExists = FALSE
    /\ files = [n \in Names |-> NoFile]
    /\ vault = NoVault
    /\ lastSet = [n \in Names |-> Unset]

NoConfigYet ==
    /\ cfgDirExists = FALSE
    /\ cfgFile = NoFile
    /\ config = NoConfig
    /\ expected = Unknown.settings
    /\ lastSaved = Unknown

\* the configuration directory before the program runs: absent, empty, holding
\* a config file some earlier run saved, or holding a file that is not one
InitConfig ==
    /\ config = NoConfig
    /\ expected = Unknown.settings
    /\ \/ /\ cfgDirExists \in BOOLEAN
          /\ cfgFile = NoFile
          /\ lastSaved = Unknown
       \/ /\ cfgDirExists = TRUE
          /\ cfgFile = File(<<>>)
          /\ lastSaved = Unknown
       \/ /\ cfgDirExists = TRUE
          /\ \E r \in Values, s \in Values :
                 /\ cfgFile = File(to_writer(Settings(r, s)))
                 /\ lastSaved = Known(ByKey(Settings(r, s)))

Init == InitEngine /\ NoVaultYet /\ NoConfigYet /\ last = Start

EngineKeys == DirectKeys \cup (IF last.op = "derive" THEN {last.res.bytes} ELSE {})

Next ==
    \/ \E pass \in Passphrases : derive_key_from_pass(pass)
    \/ \E key \in EngineKeys : Aes256Engine_new(key)
    \/ \E payload \in Plaintexts, rnd \in RngOutcomes : Seal(payload, rnd)
    \/ \E bytes \in OpenInputs : Open(bytes)

Spec == Init /\ [][Next]_vars

InitV == InitEngine /\ InitVault /\ NoConfigYet /\ last = Start

NextV ==
    \/ \E payload \in Plaintexts, rnd \in RngOutcomes : Seal(payload, rnd)
    \/ create
    \/ load
    \/ \E name \in Names : get_key(name)
    \/ \E name \in Names, value \in Plaintexts, rnd \in RngOutcomes : set_key(name, value, rnd)

SpecVault == InitV /\ [][NextV]_vars

InitC == InitEngine /\ NoVaultYet /\ InitConfig /\ last = Start

NextC ==
    \/ Configuration_init
    \/ Configuration_read
    \/ \E key \in SettingKeys : Configuration_get_key(key)
    \/ \E key \in SettingKeys, value \in Values : Configuration_set_key(key, value)
    \/ Configuration_save
    \/ remove_dir_all

SpecConfig == InitC /\ [][NextC]_vars

----------------------------------------------------------------------------
(* Properties *)

MinSealedLen == NONCE_LEN + TAG_LEN

\* C1: round trip.  Whenever decrypt_bytes has been called on the output of a
\* Seal made under the same key, it returned Ok with the plaintext sealed.
C1_RoundTrip ==
    last.op = "open" =>
        \A i \in DOMAIN sealed :
            (sealed[i].out = last.input /\ sealed[i].key = last.key)
                => last.res = Ok(sealed[i].pt)

\* C2: wire format.  Every successful Seal of N bytes returned N + 28 bytes,
\* the first 12 of them the nonce used by that Seal.
C2_SealedLayout ==
    \A i \in DOMAIN sealed :
        /\ Len(sealed[i].out) = Len(sealed[i].pt) + MinSealedLen
        /\ SubSeq(sealed[i].out, 1, NONCE_LEN) = sealed[i].nonce

\* C3: minimum length.  decrypt_bytes on a buffer shorter than 28 bytes
\* returns the MalformedInput error (it does not panic).
C3_ShortInputRejected ==
    (last.op = "open" /\ Len(last.input) < MinSealedLen)
        => last.res = Err("MalformedInput")

\* C4: authentication.  decrypt_bytes on a payload sealed under another key,
\* or on a sealed payload with one byte changed, returns the CryptoError.
SealedUnderOtherKey ==
    \E i \in DOMAIN sealed : sealed[i].out = last.input /\ sealed[i].key # last.key
TamperedPayload ==
    \E i \in DOMAIN sealed :
        /\ sealed[i].key = last.key
        /\ \E j \in TamperAt(sealed[i].out) : last.input = Tamper(sealed[i].out, j)
C4_AuthenticationFailure ==
    (last.op = "open" /\ (SealedUnderOtherKey \/ TamperedPayload))
        => last.res = Err("CryptoError")

\* C5: key derivation.  derive_key_from_pass returns the 32 bytes PBKDF2
\* derives from the passphrase, the fixed salt and 100,000 iterations: a
\* function of the passphrase alone.
C5_DerivedKey ==
    last.op = "derive" =>
        /\ Len(last.res.bytes) = AES_256_KEY_LEN
        /\ last.res.bytes = PBKDF2(ITERATIONS, SALT, last.input, AES_256_KEY_LEN)

\* C6 as claimed: no two Seals under one key used the same nonce, and two
\* Seals of one plaintext under one key returned different outputs.
C6_NonceNeverReused ==
    \A i, j \in DOMAIN sealed :
        (i # j /\ sealed[i].key = sealed[j].key) =>
            /\ sealed[i].nonce # sealed[j].nonce
            /\ sealed[i].pt = sealed[j].pt => sealed[i].out # sealed[j].out

\* C6 as amended: every successful Seal made one draw of its own from the
\* random source and used the 12 bytes of that draw as its nonce; no Seal used
\* the draw of another.
C6_FreshDrawPerSeal ==
    \A i \in DOMAIN sealed :
        /\ Len(sealed[i].nonce) = NONCE_LEN
        /\ sealed[i].draw \in DOMAIN rngLog
        /\ rngLog[sealed[i].draw] = RngOk(sealed[i].nonce)
        /\ \A j \in DOMAIN sealed : j # i => sealed[j].draw # sealed[i].draw

\* two Seals of one plaintext under one key, the second drawing the first's nonce
C6_Witness ==
    /\ Len(sealed) >= 2
    /\ sealed[1].key = sealed[2].key
    /\ sealed[1].pt = sealed[2].pt
    /\ sealed[1].nonce = sealed[2].nonce
    /\ sealed[1].draw # sealed[2].draw

C8_VaultStore ==
    last.op = "get_key" =>
        /\ lastSet[last.name].set => last.res = Ok(lastSet[last.name].value)
        /\ (~lastSet[last.name].set /\ ~files[last.name].exists)
               => last.res = ErrNamed("PasswordNotFound", last.name)

\* C9: Init empties the store.  After create has succeeded no secret's file
\* is left in the vault directory.
C9_InitRemovesPasswords ==
    (last.op = "create" /\ IsOk(last.res)) => \A n \in Names : ~files[n].exists

\* C10: entropy failure.  A call whose draw from the random source fails makes
\* that one draw only, returns the CryptoError, adds no sealed payload and
\* leaves every secret's file as it was.
DrawFailed == Len(rngLog') > Len(rngLog) /\ rngLog'[Len(rngLog) + 1] = RngFail
C10_EntropyFailure ==
    [][DrawFailed =>
          /\ rngLog' = Append(rngLog, RngFail)
          /\ last'.op \in {"seal", "set_key"}
          /\ last'.res = Err("CryptoError")
          /\ sealed' = sealed
          /\ files' = files
          /\ lastSet' = lastSet]_vars

\* set_key on a vault whose key is usable, the random source failing
C10_Witness ==
    /\ last.op = "set_key"
    /\ last.rng = "fail"
    /\ UnboundKey_new(last.key)
    /\ rngLog # <<>>
    /\ rngLog[Len(rngLog)] = RngFail

====
